---- MODULE Spec2Model ----
(***************************************************************************)
(* DDPG training loop of garage (src/src/garage/tf/algos/ddpg.py).         *)
(*                                                                         *)
(* Spec        the training loop DDPG.train / train_once / optimize_policy *)
(*             with the target networks, one statement group per step.     *)
(* SpecTarget  the regression-target arithmetic of optimize_policy         *)
(*             (lines 371-390) applied to inputs drawn from bounded sets.  *)
(* FairSpec    Spec with the enabled step of train eventually taken.       *)
(* SpecPickle  __getstate__ / __setstate__ on a constructed object.        *)
(* SpecBuffer  the training loop over a replay buffer that copies what it  *)
(*             samples or hands out views of its storage.                  *)
(* SpecConfig  the training loop over hyperparameters as a caller may      *)
(*             pass them, valid or not.                                    *)
(* SpecDiverge the training loop over a target critic that may return inf  *)
(*             or nan.                                                     *)
(* SpecSession TFTrainer.__enter__ / __exit__                              *)
(*             (src/src/garage/trainer/tf_trainer.py) among the 'with'     *)
(*             blocks of the code around the trainer.                      *)
(*                                                                         *)
(* Real numbers are fixed-point integers: a value v stands for v / FP.     *)
(* Network parameters are one scalar per network, kept in units of         *)
(* ParamUnit so that every soft update divides exactly.                    *)
(***************************************************************************)
EXTENDS Integers, Sequences, FiniteSets, TLC

\* ------------------------------------------------------------------ bounds
MaxEpochs == 2
MaxBatchLen == 2
MaxStartSteps == 3
MaxMinBuffer == 3
TauDen == 2

\* Choices of the remaining hyperparameters of DDPG.__init__.
StepsPerEpochChoices == {1, 2}
TrainStepsChoices == {1, 2}

\* Initial values of the online networks handed to DDPG.__init__ (in units).
InitPolicyParams == {1, 2}
InitQfParams == {3}

\* Outcomes of one optimizer step on a scalar parameter (in units).
GradSteps == {1}

\* ------------------------------------------------------------ fixed point
FP == 10 * 10

\* Floats of the target computation: finite fixed-point numbers, +inf, NaN.
Fin(v) == [cls |-> "fin", v |-> v]
Inf == [cls |-> "inf", v |-> 0]
NaN == [cls |-> "nan", v |-> 0]

IsFinite(x) == x.cls = "fin"

\* IEEE addition on {finite, +inf, NaN}.
FAdd(a, b) ==
    IF a.cls = "nan" \/ b.cls = "nan" THEN NaN
    ELSE IF a.cls = "inf" \/ b.cls = "inf" THEN Inf
    ELSE Fin(a.v + b.v)

\* IEEE product c * x of a finite coefficient c >= 0 (fixed point) with x.
FScale(c, x) ==
    IF x.cls = "nan" THEN NaN
    ELSE IF x.cls = "inf" THEN (IF c = 0 THEN NaN ELSE Inf)
    ELSE Fin((c * x.v) \div FP)

\* ------------------------------------------- DDPG.optimize_policy arithmetic
\* Variant: the rewards are left unscaled.
ScaleRewards_dropped(r, scale) == r

\* rewards *= self._reward_scale
ScaleRewards(r, scale) == (r * scale) \div FP

\* np.clip(x, lo, hi) = minimum(maximum(x, lo), hi)
Clip(x, lo, hi) ==
    LET m == IF x < lo THEN lo ELSE x
    IN  IF m > hi THEN hi ELSE m

\* Variant: the noise is clipped from above only.
ClipNoise_upper_only(draw, clip) == IF draw > clip THEN clip ELSE draw

\* noise = np.clip(noise, -clip, clip)
ClipNoise(draw, clip) == Clip(draw, 0 - clip, clip)

\* target_actions += noise
AddNoise(action, n) == action + n

\* Variant: the bootstrap term is kept on terminal transitions.
ComputeYs_no_terminal_mask(r, terminal, gamma, tq) ==
    FAdd(Fin(r), FScale(gamma, tq))

\* ys = rewards + (1.0 - terminals) * discount * target_qvals
\* (terminals is 0 or 1; the product associates to the left).
ComputeYs(r, terminal, gamma, tq) ==
    FAdd(Fin(r), FScale(((FP - terminal * FP) * gamma) \div FP, tq))

\* Variant: the reward scale multiplies the bootstrap term as well.
RegressionTarget_scaled_bootstrap(r, terminal, scale, gamma, tq) ==
    FAdd(Fin((r * scale) \div FP),
         FScale(scale, FScale(((FP - terminal * FP) * gamma) \div FP, tq)))

\* Lines 375-390: the regression target of a transition with raw reward r.
RegressionTarget(r, terminal, scale, gamma, tq) ==
    ComputeYs(ScaleRewards(r, scale), terminal, gamma, tq)

\* ------------------------------------------------------- network parameters
SetMax(S) == CHOOSE x \in S : \A y \in S : y <= x

\* Most optimization steps one run can take.
MaxOptSteps == MaxEpochs * SetMax(StepsPerEpochChoices) * SetMax(TrainStepsChoices)

\* Parameters are multiples of ParamUnit / TauDen^j after j soft updates.
ParamUnit == TauDen ^ MaxOptSteps

\* Policy.clone / QFunction.clone: a copy with the same parameter values.
Clone(params) == params

\* One optimizer.minimize step on the online parameters.
GradientStep(params, d) == params + d * ParamUnit

\* tensor_utils.get_target_ops update op: target := tau*online + (1-tau)*target
SoftUpdate(online, target, t) == (t * online + (TauDen - t) * target) \div TauDen

\* -------------------------------------------------------------------- state
VARIABLES
    pc,                    \* position in __init__ / train / train_once / optimize_policy
    start_steps,           \* self._start_steps
    min_buffer_size,       \* self._min_buffer_size
    n_train_steps,         \* self._n_train_steps
    steps_per_epoch,       \* self._steps_per_epoch
    n_epochs,              \* number of epochs runner.step_epochs() yields
    tau,                   \* self._tau, as tau / TauDen
    reward_scale,          \* self._reward_scale (fixed point)
    discount,              \* self._discount (fixed point)
    exploration_policy_clip, \* self._exploration_policy_clip (fixed point)
    num_evaluation_episodes, \* self._num_evaluation_episodes
    buffer_batch_size,     \* self._buffer_batch_size
    step_itr,              \* runner.step_itr
    total_env_steps,       \* runner.total_env_steps
    step_path,             \* runner.step_path: number of transitions of the batch
    epoch,                 \* epoch yielded by runner.step_epochs()
    cycle,                 \* loop variable of train
    agent_update,          \* acting policy handed to runner.obtain_episodes
    n_transitions_stored,  \* self.replay_buffer.n_transitions_stored
    buffer_rewards,        \* rewards of the transitions the replay buffer holds
    by_reference,          \* sample_transitions hands out views of the buffer's arrays
    policy,                \* parameters of self.policy
    qf,                    \* parameters of self._qf
    target_policy,         \* parameters of self._target_policy
    target_qf,             \* parameters of self._target_qf
    last_returns,          \* local of train
    enable_logging,        \* runner.enable_logging
    epoch_stats,           \* self._episode_policy_losses, _episode_qf_losses, _epoch_ys, _epoch_qs
    tabular,               \* records written by train_once
    train_i,               \* loop variable of train_once
    raw_rewards,           \* transitions['rewards'] as sampled
    rewards,               \* local of optimize_policy
    terminals,             \* local of optimize_policy
    noise_draw,            \* np.random.normal(...)
    noise,                 \* local of optimize_policy, after np.clip
    policy_actions,        \* self.target_policy_f_prob_online(next_inputs)
    target_actions,        \* local of optimize_policy, after += noise
    target_qvals,          \* local of optimize_policy
    ys,                    \* local of optimize_policy
    raised,                \* exception propagated out of train, or "none"
    result,                \* value returned by train
    self_dict,             \* __dict__ of a DDPG object
    data,                  \* state produced by __getstate__
    restored,              \* __dict__ of the object __setstate__ filled
    \* history variables, read only by the properties
    env_steps_at_choice,   \* runner.total_env_steps when the acting policy was chosen
    cycle_opt,             \* optimize_policy calls of the current cycle
    n_optimize,            \* optimize_policy calls completed
    n_qf_updates,          \* f_train_qf calls
    n_policy_updates,      \* f_train_policy calls
    n_soft_updates,        \* f_update_target calls
    opt_trace,             \* order of the sub-steps of the current optimize_policy call
    ys_targets,            \* target parameters read when ys was computed
    qf_trained,            \* critic parameters produced by f_train_qf
    qf_in_action_loss,     \* critic parameters read by f_train_policy
    prev_targets,          \* target parameters before f_update_target
    evaluations,           \* the evaluations run, each with its cycle and policy
    n_obtain,              \* runner.obtain_episodes calls
    n_add,                 \* replay_buffer.add_episode_batch calls
    opt_epochs,            \* epochs whose first cycle ran an optimization step
    target_q_outputs,      \* values target_qf_f_prob_online can return in this run
    nonfinite_steps,       \* optimize_policy calls that returned a non-finite ys
    sess_entered,          \* TFTrainer.sess_entered
    session_stack,         \* TensorFlow's stack of default sessions, top last
    n_enter_calls,         \* TFTrainer.__enter__ calls
    n_exit_calls,          \* TFTrainer.__exit__ calls
    n_sess_enter,          \* self.sess.__enter__ calls that returned
    n_sess_exit,           \* self.sess.__exit__ calls
    last_exit              \* what the last TFTrainer.__exit__ call saw and did

hyper == <<start_steps, min_buffer_size, n_train_steps, steps_per_epoch, n_epochs,
           tau, reward_scale, discount, exploration_policy_clip,
           num_evaluation_episodes, buffer_batch_size>>
runner == <<step_itr, total_env_steps, step_path, epoch, cycle, agent_update,
            enable_logging>>
params == <<policy, qf, target_policy, target_qf>>
stats == <<epoch_stats, tabular>>
locals == <<raw_rewards, rewards, terminals, noise_draw, noise, policy_actions,
            target_actions, target_qvals, ys>>
counters == <<cycle_opt, n_optimize, n_qf_updates, n_policy_updates, n_soft_updates>>
history == <<env_steps_at_choice, opt_trace, ys_targets, qf_trained,
             qf_in_action_loss, prev_targets>>
buffer == <<buffer_rewards, by_reference>>
snapshot == <<self_dict, data, restored>>
audit == <<evaluations, n_obtain, n_add, opt_epochs>>
numerics == <<target_q_outputs, nonfinite_steps>>
tf_trainer == <<sess_entered, session_stack, n_enter_calls, n_exit_calls,
                n_sess_enter, n_sess_exit, last_exit>>

vars == <<pc, hyper, runner, n_transitions_stored, params, last_returns, stats,
          train_i, locals, raised, counters, history, buffer, snapshot, audit,
          result, numerics, tf_trainer>>

\* Python's None for last_returns; an evaluation is named by its epoch.
None == 0 - 1

\* Defaults of DDPG.__init__ (fixed point).
DefaultDiscount == 99
DefaultRewardScale == 100
DefaultNoiseClip == 50
DefaultNumEvaluationEpisodes == 10

\* No object has been pickled.
NoSnapshot == self_dict = <<>> /\ data = <<>> /\ restored = <<>>

NoAudit == evaluations = <<>> /\ n_obtain = 0 /\ n_add = 0 /\ opt_epochs = {}

\* What the target critic hands out in the runs of the training loop.
LoopTargetQvals == {Fin(500)}

\* No call of TFTrainer.__exit__ yet.
NoExit == [exc |-> "none", was_default |-> FALSE, was_entered |-> FALSE,
           released |-> FALSE, popped |-> "none"]

\* A trainer as constructed (tf_trainer.py line 79), no default session.
NoSession ==
    /\ sess_entered = FALSE /\ session_stack = <<>>
    /\ n_enter_calls = 0 /\ n_exit_calls = 0
    /\ n_sess_enter = 0 /\ n_sess_exit = 0
    /\ last_exit = NoExit

\* A target critic with finite outputs, no optimization step has returned.
NoDivergence == target_q_outputs = LoopTargetQvals /\ nonfinite_steps = {}

NoLocals ==
    /\ raw_rewards = 0 /\ rewards = 0 /\ terminals = 0 /\ noise_draw = 0
    /\ noise = 0 /\ policy_actions = 0 /\ target_actions = 0
    /\ target_qvals = Fin(0) /\ ys = Fin(0)

NoHistory ==
    /\ env_steps_at_choice = 0 /\ cycle_opt = 0 /\ n_optimize = 0
    /\ n_qf_updates = 0 /\ n_policy_updates = 0 /\ n_soft_updates = 0
    /\ opt_trace = <<>> /\ ys_targets = <<0, 0>> /\ qf_trained = 0
    /\ qf_in_action_loss = 0 /\ prev_targets = <<0, 0>>

\* A fresh runner and replay buffer, the online networks built, DDPG not yet
\* constructed.
Init ==
    /\ pc = "new"
    /\ start_steps \in 0..MaxStartSteps
    /\ min_buffer_size \in 1..MaxMinBuffer
    /\ n_train_steps \in TrainStepsChoices
    /\ steps_per_epoch \in StepsPerEpochChoices
    /\ n_epochs \in 1..MaxEpochs
    /\ tau \in 1..TauDen
    /\ reward_scale = DefaultRewardScale
    /\ discount = DefaultDiscount
    /\ exploration_policy_clip = DefaultNoiseClip
    /\ num_evaluation_episodes = DefaultNumEvaluationEpisodes
    /\ buffer_batch_size = 1
    /\ step_itr = 0 /\ total_env_steps = 0 /\ step_path = 0
    /\ epoch = 0 /\ cycle = 0 /\ agent_update = "none"
    /\ enable_logging = TRUE
    /\ n_transitions_stored = 0
    /\ buffer_rewards = <<>> /\ by_reference = FALSE
    /\ NoSnapshot /\ NoAudit /\ NoDivergence /\ NoSession /\ result = None
    /\ policy \in {p * ParamUnit : p \in InitPolicyParams}
    /\ qf \in {q * ParamUnit : q \in InitQfParams}
    /\ target_policy = 0 /\ target_qf = 0
    /\ last_returns = None
    /\ epoch_stats = <<>> /\ tabular = <<>>
    /\ train_i = 0
    /\ NoLocals
    /\ raised = "none"
    /\ NoHistory

\* Variant: the target networks are built afresh, not cloned.
DDPG_init_fresh_targets ==
    /\ pc = "new"
    /\ epoch_stats' = <<>>
    /\ target_policy' = 0
    /\ target_qf' = 0
    /\ pc' = "constructed"
    /\ UNCHANGED <<hyper, numerics, tf_trainer, buffer, snapshot, audit, result, runner, n_transitions_stored, policy, qf, last_returns,
                   tabular, train_i, locals, raised, counters, history>>

\* -------------------------------------------------------------- DDPG.__init__
\* Lines 99-105: empty statistics, target networks cloned from the online ones.
\* init_opt only compiles functions; f_init_target is stored, not called.
DDPG_init ==
    /\ pc = "new"
    /\ epoch_stats' = <<>>
    /\ target_policy' = Clone(policy)
    /\ target_qf' = Clone(qf)
    /\ pc' = "constructed"
    /\ UNCHANGED <<hyper, numerics, tf_trainer, buffer, snapshot, audit, result, runner, n_transitions_stored, policy, qf, last_returns,
                   tabular, train_i, locals, raised, counters, history>>

\* ---------------------------------------------------------------- DDPG.train
\* Lines 280-285: last_returns = None, logging off, first epoch, first cycle.
train_begin ==
    /\ pc = "constructed"
    /\ last_returns' = None
    /\ enable_logging' = FALSE
    /\ epoch' = 0
    /\ cycle' = 0
    /\ pc' = "obtain"
    /\ UNCHANGED <<hyper, numerics, tf_trainer, buffer, snapshot, audit, result, step_itr, total_env_steps, step_path, agent_update,
                   n_transitions_stored, params, stats, train_i, locals, raised,
                   counters, history>>

\* The acting policy of lines 289-295.
ActingPolicy(itr, start) ==
    IF itr >= start THEN "exploration_policy" ELSE "uniform_random_policy"

\* Variant: the update is called on the collected batch before it is appended.
PhaseAfter_update_before_append(phase) == "gate"

\* The statement order of a cycle's first phases: obtain_episodes (line 296),
\* then add_episode_batch (line 298), then the test of line 301.
PhaseAfter(phase) ==
    IF phase = "obtain" THEN "add" ELSE "gate"

\* Lines 289-295: runner.obtain_episodes with the acting policy; the runner
\* adds the batch's length to total_env_steps.
train_obtain_episodes ==
    /\ pc = "obtain"
    /\ agent_update' = ActingPolicy(step_itr, start_steps)
    /\ env_steps_at_choice' = total_env_steps
    /\ \E k \in 1..MaxBatchLen :
          /\ step_path' = k
          /\ total_env_steps' = total_env_steps + k
    /\ cycle_opt' = 0
    /\ n_obtain' = n_obtain + 1
    /\ pc' = PhaseAfter("obtain")
    /\ UNCHANGED <<hyper, numerics, tf_trainer, buffer, snapshot, result, evaluations, n_add,
                   opt_epochs, step_itr, epoch, cycle, enable_logging,
                   n_transitions_stored, params, last_returns, stats, train_i,
                   locals, raised, n_optimize, n_qf_updates, n_policy_updates,
                   n_soft_updates, opt_trace, ys_targets, qf_trained,
                   qf_in_action_loss, prev_targets>>

\* The rewards of the transitions the sampler collects.
LoopRewards == {100}

\* Line 298: self.replay_buffer.add_episode_batch(runner.step_path)
train_add_episode_batch ==
    /\ pc = "add"
    /\ n_transitions_stored' = n_transitions_stored + step_path
    /\ \E r \in LoopRewards :
          buffer_rewards' = buffer_rewards \o [i \in 1..step_path |-> r]
    /\ n_add' = n_add + 1
    /\ pc' = PhaseAfter("add")
    /\ UNCHANGED <<hyper, numerics, tf_trainer, by_reference, snapshot, result, evaluations,
                   n_obtain, opt_epochs, runner, params, last_returns, stats, train_i, locals,
                   raised, counters, history>>

\* Variant: train_once is called in every cycle.
UpdateAfterWarmUp_always(env_steps, start) == TRUE

\* Variant: the update starts one environment step late.
UpdateAfterWarmUp_strict(env_steps, start) == env_steps > start

\* The condition of line 301 under which train calls train_once.
UpdateAfterWarmUp(env_steps, start) == env_steps >= start

\* Lines 301-302, train_once is called.
train_call_train_once ==
    /\ pc = "gate"
    /\ UpdateAfterWarmUp(total_env_steps, start_steps)
    /\ train_i' = 0
    /\ pc' = "train_once"
    /\ UNCHANGED <<hyper, numerics, tf_trainer, buffer, snapshot, audit, result, runner, n_transitions_stored, params, last_returns,
                   stats, locals, raised, counters, history>>

\* Lines 301-302, train_once is not called.
train_skip_train_once ==
    /\ pc = "gate"
    /\ ~UpdateAfterWarmUp(total_env_steps, start_steps)
    /\ pc' = "evaluate"
    /\ UNCHANGED <<hyper, numerics, tf_trainer, buffer, snapshot, audit, result, runner, n_transitions_stored, params, last_returns,
                   stats, train_i, locals, raised, counters, history>>

\* ----------------------------------------------------------- DDPG.train_once
\* Variant: any non-empty buffer counts as warm.
BufferWarm_nonempty(stored, min_size) == stored >= 1

\* The condition of lines 328-329, 340-341 and 304-305.
BufferWarm(stored, min_size) == stored >= min_size

\* Lines 327-330: an iteration of the loop that calls optimize_policy.
train_once_optimize ==
    /\ pc = "train_once"
    /\ train_i < n_train_steps
    /\ BufferWarm(n_transitions_stored, min_buffer_size)
    /\ opt_trace' = <<>>
    /\ pc' = "opt_targets"
    /\ UNCHANGED <<hyper, numerics, tf_trainer, buffer, snapshot, audit, result, runner, n_transitions_stored, params, last_returns,
                   stats, train_i, locals, raised, counters,
                   env_steps_at_choice, ys_targets, qf_trained,
                   qf_in_action_loss, prev_targets>>

\* Lines 327-329: an iteration of the loop that skips the optimization.
train_once_skip ==
    /\ pc = "train_once"
    /\ train_i < n_train_steps
    /\ ~BufferWarm(n_transitions_stored, min_buffer_size)
    /\ train_i' = train_i + 1
    /\ UNCHANGED <<pc, hyper, numerics, tf_trainer, buffer, snapshot, audit, result, runner, n_transitions_stored, params, last_returns,
                   stats, locals, raised, counters, history>>

\* Line 327: the loop is over.
train_once_loop_end ==
    /\ pc = "train_once"
    /\ train_i >= n_train_steps
    /\ pc' = "log"
    /\ UNCHANGED <<hyper, numerics, tf_trainer, buffer, snapshot, audit, result, runner, n_transitions_stored, params, last_returns,
                   stats, train_i, locals, raised, counters, history>>

\* ------------------------------------------------------ DDPG.optimize_policy
\* What the loop's replay buffer, networks and random generator hand out.
LoopTerminals == {0, 1}
LoopPolicyActions == {0}
LoopNoiseDraws == {0 - 70, 30}

\* Variant: the policy is trained before the critic.
StepAfter_policy_first(step) ==
    CASE step = "opt_targets" -> "opt_train_policy"
      [] step = "opt_train_policy" -> "opt_train_qf"
      [] step = "opt_train_qf" -> "opt_update_target"
      [] step = "opt_update_target" -> "opt_return"

\* The statement order of lines 366-397.
StepAfter(step) ==
    CASE step = "opt_targets" -> "opt_train_qf"
      [] step = "opt_train_qf" -> "opt_train_policy"
      [] step = "opt_train_policy" -> "opt_update_target"
      [] step = "opt_update_target" -> "opt_return"

\* Lines 366-375: sample_transitions hands out transition i; rewards is a
\* reshape (a view) of what it hands out, and rewards *= self._reward_scale
\* writes into it. A buffer that hands out views of its arrays is written to.
SampledInPlace(stored, i) ==
    IF by_reference
    THEN [stored EXCEPT ![i] = ScaleRewards(stored[i], reward_scale)]
    ELSE stored

\* Lines 366-390 on a sampled transition (reward r, terminal t), the target
\* policy's action a, the noise draw nd and the target critic's value tq.
ComputeTargets(r, t, a, nd, tq) ==
    /\ raw_rewards' = r
    /\ rewards' = ScaleRewards(r, reward_scale)
    /\ terminals' = t
    /\ policy_actions' = a
    /\ noise_draw' = nd
    /\ noise' = ClipNoise(nd, exploration_policy_clip)
    /\ target_actions' = AddNoise(a, ClipNoise(nd, exploration_policy_clip))
    /\ target_qvals' = tq
    /\ ys' = RegressionTarget(r, t, reward_scale, discount, tq)

\* Lines 366-390: sample a batch, scale the rewards, clip the noise, evaluate
\* the target networks and compute ys.
optimize_policy_targets ==
    /\ pc = "opt_targets"
    /\ \E i \in 1..Len(buffer_rewards), t \in LoopTerminals,
          a \in LoopPolicyActions, nd \in LoopNoiseDraws,
          tq \in target_q_outputs :
          /\ ComputeTargets(buffer_rewards[i], t, a, nd, tq)
          /\ buffer_rewards' = SampledInPlace(buffer_rewards, i)
    /\ ys_targets' = <<target_policy, target_qf>>
    /\ opt_trace' = Append(opt_trace, "ys")
    /\ pc' = StepAfter("opt_targets")
    /\ UNCHANGED <<hyper, numerics, tf_trainer, by_reference, snapshot, audit, result, runner, n_transitions_stored, params, last_returns,
                   stats, train_i, raised, counters, env_steps_at_choice,
                   qf_trained, qf_in_action_loss, prev_targets>>

\* Variant: the critic's optimizer is not restricted to the online critic's
\* variables and moves the target critic too.
optimize_policy_train_qf_all_vars ==
    /\ pc = "opt_train_qf"
    /\ \E d \in GradSteps :
          /\ qf' = GradientStep(qf, d)
          /\ qf_trained' = GradientStep(qf, d)
          /\ target_qf' = GradientStep(target_qf, d)
    /\ n_qf_updates' = n_qf_updates + 1
    /\ opt_trace' = Append(opt_trace, "train_qf")
    /\ pc' = StepAfter("opt_train_qf")
    /\ UNCHANGED <<hyper, numerics, tf_trainer, buffer, snapshot, audit, result, runner,
                   n_transitions_stored, policy, target_policy,
                   last_returns, stats, train_i, locals, raised,
                   cycle_opt, n_optimize, n_policy_updates, n_soft_updates,
                   env_steps_at_choice, ys_targets, qf_in_action_loss,
                   prev_targets>>

\* Line 392: self.f_train_qf(ys, inputs, actions), one optimizer step on qf.
optimize_policy_train_qf ==
    /\ pc = "opt_train_qf"
    /\ \E d \in GradSteps :
          /\ qf' = GradientStep(qf, d)
          /\ qf_trained' = GradientStep(qf, d)
    /\ n_qf_updates' = n_qf_updates + 1
    /\ opt_trace' = Append(opt_trace, "train_qf")
    /\ pc' = StepAfter("opt_train_qf")
    /\ UNCHANGED <<hyper, numerics, tf_trainer, buffer, snapshot, audit, result, runner, n_transitions_stored, policy, target_policy,
                   target_qf, last_returns, stats, train_i, locals, raised,
                   cycle_opt, n_optimize, n_policy_updates, n_soft_updates,
                   env_steps_at_choice, ys_targets, qf_in_action_loss,
                   prev_targets>>

\* Line 393: self.f_train_policy(inputs), one optimizer step on the policy;
\* its loss reads the critic's parameters as they are when it runs.
optimize_policy_train_policy ==
    /\ pc = "opt_train_policy"
    /\ \E d \in GradSteps : policy' = GradientStep(policy, d)
    /\ qf_in_action_loss' = qf
    /\ n_policy_updates' = n_policy_updates + 1
    /\ opt_trace' = Append(opt_trace, "train_policy")
    /\ pc' = StepAfter("opt_train_policy")
    /\ UNCHANGED <<hyper, numerics, tf_trainer, buffer, snapshot, audit, result, runner, n_transitions_stored, qf, target_policy,
                   target_qf, last_returns, stats, train_i, locals, raised,
                   cycle_opt, n_optimize, n_qf_updates, n_soft_updates,
                   env_steps_at_choice, ys_targets, qf_trained, prev_targets>>

\* Variant: target_update_op holds the policy's update ops only.
optimize_policy_update_target_policy_only ==
    /\ pc = "opt_update_target"
    /\ target_policy' = SoftUpdate(policy, target_policy, tau)
    /\ target_qf' = target_qf
    /\ n_soft_updates' = n_soft_updates + 1
    /\ opt_trace' = Append(opt_trace, "update_target")
    /\ prev_targets' = <<target_policy, target_qf>>
    /\ pc' = StepAfter("opt_update_target")
    /\ UNCHANGED <<hyper, numerics, tf_trainer, buffer, snapshot, audit, result, runner, n_transitions_stored, policy, qf, last_returns,
                   stats, train_i, locals, raised, cycle_opt, n_optimize,
                   n_qf_updates, n_policy_updates, env_steps_at_choice,
                   ys_targets, qf_trained, qf_in_action_loss>>

\* Line 395: self.f_update_target(), both target networks.
optimize_policy_update_target ==
    /\ pc = "opt_update_target"
    /\ target_policy' = SoftUpdate(policy, target_policy, tau)
    /\ target_qf' = SoftUpdate(qf, target_qf, tau)
    /\ n_soft_updates' = n_soft_updates + 1
    /\ opt_trace' = Append(opt_trace, "update_target")
    /\ prev_targets' = <<target_policy, target_qf>>
    /\ pc' = StepAfter("opt_update_target")
    /\ UNCHANGED <<hyper, numerics, tf_trainer, buffer, snapshot, audit, result, runner, n_transitions_stored, policy, qf, last_returns,
                   stats, train_i, locals, raised, cycle_opt, n_optimize,
                   n_qf_updates, n_policy_updates, env_steps_at_choice,
                   ys_targets, qf_trained, qf_in_action_loss>>

\* Lines 390-397: the ys optimize_policy returns are non-finite, and with
\* them the critic loss mean((ys - qval)^2) of lines 217-219.
StepDiverged(y) == ~IsFinite(y)

\* Lines 397 and 330-335: optimize_policy returns (its locals are gone),
\* train_once appends the results to the four lists and goes on with its loop.
train_once_append ==
    /\ pc = "opt_return"
    /\ epoch_stats' = Append(epoch_stats, n_optimize + 1)
    /\ n_optimize' = n_optimize + 1
    /\ nonfinite_steps' =
          IF StepDiverged(ys) THEN nonfinite_steps \cup {n_optimize + 1}
          ELSE nonfinite_steps
    /\ cycle_opt' = cycle_opt + 1
    /\ opt_epochs' = IF cycle = 0 THEN opt_epochs \cup {epoch} ELSE opt_epochs
    /\ train_i' = train_i + 1
    /\ pc' = "train_once"
    /\ raw_rewards' = 0 /\ rewards' = 0 /\ terminals' = 0 /\ noise_draw' = 0
    /\ noise' = 0 /\ policy_actions' = 0 /\ target_actions' = 0
    /\ target_qvals' = Fin(0) /\ ys' = Fin(0)
    /\ UNCHANGED <<hyper, tf_trainer, target_q_outputs, buffer, snapshot, result, evaluations, n_obtain,
                   n_add, runner, n_transitions_stored, params, last_returns,
                   tabular, raised, n_qf_updates, n_policy_updates,
                   n_soft_updates, history>>

\* Variant: the statistics are recorded in every cycle with a warm buffer.
RecordDue_every_cycle(itr, per_epoch, stored, min_size) ==
    BufferWarm(stored, min_size)

\* The conditions of lines 337 and 340-341.
RecordDue(itr, per_epoch, stored, min_size) ==
    itr % per_epoch = 0 /\ BufferWarm(stored, min_size)

\* Lines 337-354: on the first cycle of an epoch, with a warm buffer, the
\* statistics of the lists are recorded.
train_once_record ==
    /\ pc = "log"
    /\ tabular' =
          IF RecordDue(step_itr, steps_per_epoch, n_transitions_stored,
                       min_buffer_size)
          THEN Append(tabular, [itr |-> step_itr, over |-> epoch_stats,
                                stored |-> n_transitions_stored])
          ELSE tabular
    /\ pc' = "evaluate"
    /\ UNCHANGED <<hyper, numerics, tf_trainer, buffer, snapshot, audit, result, runner, n_transitions_stored, params, last_returns,
                   epoch_stats, train_i, locals, raised, counters, history>>

\* ------------------------------------------------------ DDPG.train, continued
\* Variant: the evaluation runs in every cycle with a warm buffer.
EvaluationDue_any_cycle(c, stored, min_size) == BufferWarm(stored, min_size)

\* The condition of lines 304-305.
EvaluationDue(c, stored, min_size) == c = 0 /\ BufferWarm(stored, min_size)

\* Variant: the returns of the first evaluation are kept.
NewLastReturns_keep_first(old, returns) == IF old = None THEN returns ELSE old

\* Line 311: last_returns = log_performance(...)
NewLastReturns(old, returns) == returns

\* Lines 304-313: evaluation on the first cycle of an epoch, warm buffer:
\* obtain_evaluation_episodes(self.policy, ..., num_eps) and log_performance;
\* the returns of an evaluation are named by the epoch it ran in.
train_evaluate ==
    /\ pc = "evaluate"
    /\ IF EvaluationDue(cycle, n_transitions_stored, min_buffer_size)
       THEN /\ enable_logging' = TRUE
            /\ evaluations' = Append(evaluations,
                   [itr |-> step_itr, agent |-> "policy",
                    num_eps |-> num_evaluation_episodes,
                    after |-> <<n_qf_updates, n_policy_updates,
                                n_soft_updates>>])
            /\ last_returns' = NewLastReturns(last_returns, epoch)
       ELSE UNCHANGED <<enable_logging, last_returns, evaluations>>
    /\ pc' = "next"
    /\ UNCHANGED <<hyper, numerics, tf_trainer, buffer, snapshot, result, n_obtain, n_add, opt_epochs,
                   step_itr, total_env_steps, step_path, epoch, cycle,
                   agent_update, n_transitions_stored, params, stats, train_i,
                   locals, raised, counters, history>>

\* Variant: every epoch runs one cycle more.
EpochHasMoreCycles_one_extra(c, per_epoch) == c < per_epoch

\* Line 286: for cycle in range(self._steps_per_epoch)
EpochHasMoreCycles(c, per_epoch) == c + 1 < per_epoch

\* Line 314 and the loop heads of lines 285-286.
train_next ==
    /\ pc = "next"
    /\ step_itr' = step_itr + 1
    /\ IF EpochHasMoreCycles(cycle, steps_per_epoch)
       THEN /\ cycle' = cycle + 1
            /\ epoch' = epoch
            /\ pc' = "obtain"
       ELSE IF epoch + 1 < n_epochs
       THEN /\ cycle' = 0
            /\ epoch' = epoch + 1
            /\ pc' = "obtain"
       ELSE /\ UNCHANGED <<cycle, epoch>>
            /\ pc' = "return"
    /\ UNCHANGED <<hyper, numerics, tf_trainer, buffer, snapshot, audit, result, total_env_steps, step_path, agent_update,
                   enable_logging, n_transitions_stored, params, last_returns,
                   stats, train_i, locals, raised, counters, history>>

\* Line 316: return np.mean(last_returns); np.mean(None) raises TypeError.
train_return ==
    /\ pc = "return"
    /\ IF last_returns = None
       THEN /\ raised' = "TypeError"
            /\ result' = result
            /\ pc' = "raised"
       ELSE /\ raised' = raised
            /\ result' = last_returns
            /\ pc' = "done"
    /\ UNCHANGED <<hyper, numerics, tf_trainer, buffer, snapshot, audit, runner, n_transitions_stored, params, last_returns,
                   stats, train_i, locals, counters, history>>

Next ==
    \/ DDPG_init
    \/ train_begin
    \/ train_obtain_episodes
    \/ train_add_episode_batch
    \/ train_call_train_once
    \/ train_skip_train_once
    \/ train_once_optimize
    \/ train_once_skip
    \/ train_once_loop_end
    \/ optimize_policy_targets
    \/ optimize_policy_train_qf
    \/ optimize_policy_train_policy
    \/ optimize_policy_update_target
    \/ train_once_append
    \/ train_once_record
    \/ train_evaluate
    \/ train_next
    \/ train_return

Spec == Init /\ [][Next]_vars

\* train runs on one thread and no statement of it waits: the step that is
\* enabled is eventually taken.
FairSpec == Spec /\ WF_vars(Next)

\* ------------------------------------- the target arithmetic on its own inputs
RewardScales == {50, 100, 200}
Discounts == {0, 99, 100}
NoiseClips == {0, 20, 50}
Rewards == {0 - 100, 0, 100, 250}
Terminals == {0, 1}
PolicyActions == {0 - 100, 0, 40}
NoiseDraws == {0 - 70, 0 - 50, 0 - 20, 0, 30, 50, 70}
TargetQvals == {Fin(0 - 300), Fin(0), Fin(500), Inf, NaN}

\* A sampled transition, a noise draw and the target networks' outputs, with
\* the hyperparameters of lines 117-123; nothing of the loop has run.
InitTarget ==
    /\ pc = "inputs"
    /\ start_steps = 0 /\ min_buffer_size = 1 /\ n_train_steps = 1
    /\ steps_per_epoch = 1 /\ n_epochs = 1 /\ tau = TauDen
    /\ reward_scale \in RewardScales
    /\ discount \in Discounts
    /\ exploration_policy_clip \in NoiseClips
    /\ num_evaluation_episodes = DefaultNumEvaluationEpisodes
    /\ buffer_batch_size = 1
    /\ step_itr = 0 /\ total_env_steps = 0 /\ step_path = 0
    /\ epoch = 0 /\ cycle = 0 /\ agent_update = "none"
    /\ enable_logging = TRUE
    /\ n_transitions_stored = 1
    /\ by_reference = FALSE
    /\ NoSnapshot /\ NoAudit /\ NoDivergence /\ NoSession /\ result = None
    /\ policy = 0 /\ qf = 0 /\ target_policy = 0 /\ target_qf = 0
    /\ last_returns = None
    /\ epoch_stats = <<>> /\ tabular = <<>>
    /\ train_i = 0
    /\ raw_rewards \in Rewards
    /\ buffer_rewards = <<raw_rewards>>
    /\ terminals \in Terminals
    /\ policy_actions \in PolicyActions
    /\ noise_draw \in NoiseDraws
    /\ target_qvals \in TargetQvals
    /\ rewards = 0 /\ noise = 0 /\ target_actions = 0 /\ ys = Fin(0)
    /\ raised = "none"
    /\ NoHistory

\* Lines 375-390 applied to the inputs.
target_apply ==
    /\ pc = "inputs"
    /\ ComputeTargets(raw_rewards, terminals, policy_actions, noise_draw,
                      target_qvals)
    /\ pc' = "computed"
    /\ UNCHANGED <<hyper, numerics, tf_trainer, buffer, snapshot, audit, result, runner, n_transitions_stored, params, last_returns,
                   stats, train_i, raised, counters, history>>

NextTarget == target_apply

SpecTarget == InitTarget /\ [][NextTarget]_vars

\* ------------------------------------- DDPG.__getstate__ / DDPG.__setstate__
\* The six compiled functions init_opt assigns to self (lines 158-161, 238-241).
DerivedFunctions ==
    {"target_policy_f_prob_online", "target_qf_f_prob_online",
     "f_train_policy", "f_train_qf", "f_init_target", "f_update_target"}

\* The attributes __init__ assigns that are modelled (lines 89-134).
PersistedFields ==
    {"_tau", "_min_buffer_size", "_start_steps", "_steps_per_epoch",
     "_n_train_steps", "_discount", "_reward_scale", "_episode_qf_losses",
     "policy", "_qf", "_target_policy", "_target_qf"}

\* self.__dict__ of the object whose attributes are this model's variables,
\* the six functions being those of the build-th call of init_opt.
LiveDict(build) ==
    [k \in PersistedFields \cup DerivedFunctions |->
        IF k \in DerivedFunctions THEN [fn |-> k, build |-> build]
        ELSE IF k = "_tau" THEN [v |-> tau]
        ELSE IF k = "_min_buffer_size" THEN [v |-> min_buffer_size]
        ELSE IF k = "_start_steps" THEN [v |-> start_steps]
        ELSE IF k = "_steps_per_epoch" THEN [v |-> steps_per_epoch]
        ELSE IF k = "_n_train_steps" THEN [v |-> n_train_steps]
        ELSE IF k = "_discount" THEN [v |-> discount]
        ELSE IF k = "_reward_scale" THEN [v |-> reward_scale]
        ELSE IF k = "_episode_qf_losses" THEN [v |-> epoch_stats]
        ELSE IF k = "policy" THEN [v |-> policy]
        ELSE IF k = "_qf" THEN [v |-> qf]
        ELSE IF k = "_target_policy" THEN [v |-> target_policy]
        ELSE [v |-> target_qf]]

\* del d[k] for every k of keys.
Del(d, keys) == [k \in DOMAIN d \ keys |-> d[k]]

\* d.update(state)
DictUpdate(d, state) ==
    [k \in DOMAIN d \cup DOMAIN state |->
        IF k \in DOMAIN state THEN state[k] ELSE d[k]]

\* Variant: f_init_target is not deleted from the copy.
GetState_keeps_f_init_target(d) == Del(d, DerivedFunctions \ {"f_init_target"})

\* Lines 250-257: the copy of __dict__ without the six functions.
GetState(d) == Del(d, DerivedFunctions)

\* Lines 158-161 and 238-241: init_opt assigns six newly compiled functions.
InitOpt(d, build) ==
    DictUpdate(d, [k \in DerivedFunctions |-> [fn |-> k, build |-> build]])

\* Statistics lists of an object that has trained for up to two steps.
PickleStats == {<<>>, <<1>>, <<1, 2>>}

\* A constructed DDPG object (init_opt has run once, line 136), possibly
\* after some training; nothing pickled, no object restored.
InitPickle ==
    /\ pc = "live"
    /\ start_steps \in 0..MaxStartSteps
    /\ min_buffer_size \in 1..MaxMinBuffer
    /\ n_train_steps \in TrainStepsChoices
    /\ steps_per_epoch \in StepsPerEpochChoices
    /\ n_epochs = 1
    /\ tau \in 1..TauDen
    /\ reward_scale = DefaultRewardScale
    /\ discount = DefaultDiscount
    /\ exploration_policy_clip = DefaultNoiseClip
    /\ num_evaluation_episodes = DefaultNumEvaluationEpisodes
    /\ buffer_batch_size = 1
    /\ step_itr = 0 /\ total_env_steps = 0 /\ step_path = 0
    /\ epoch = 0 /\ cycle = 0 /\ agent_update = "none"
    /\ enable_logging = TRUE
    /\ n_transitions_stored = 0
    /\ buffer_rewards = <<>> /\ by_reference = FALSE
    /\ policy \in {p * ParamUnit : p \in InitPolicyParams}
    /\ qf \in {q * ParamUnit : q \in InitQfParams}
    /\ target_policy = Clone(policy) /\ target_qf = Clone(qf)
    /\ last_returns = None
    /\ epoch_stats \in PickleStats /\ tabular = <<>>
    /\ self_dict = LiveDict(1)
    /\ data = <<>> /\ restored = <<>>
    /\ NoAudit /\ NoDivergence /\ NoSession /\ result = None
    /\ train_i = 0
    /\ NoLocals
    /\ raised = "none"
    /\ NoHistory

\* pickle.dumps(algo): __getstate__ (lines 243-257), whose del raises KeyError
\* for a key the copy does not hold; what it returns is serialized.
pickle_getstate ==
    /\ pc = "live"
    /\ IF DerivedFunctions \subseteq DOMAIN self_dict
       THEN /\ data' = GetState(self_dict)
            /\ raised' = raised
            /\ pc' = "pickled"
       ELSE /\ data' = data
            /\ raised' = "KeyError"
            /\ pc' = "raised"
    /\ UNCHANGED <<hyper, numerics, tf_trainer, buffer, self_dict, restored, audit, result, runner,
                   n_transitions_stored, params, last_returns, stats, train_i,
                   locals, counters, history>>

\* pickle.loads: __setstate__ on a new object without attributes (lines
\* 259-267): __dict__.update(state), then init_opt().
pickle_setstate ==
    /\ pc = "pickled"
    /\ restored' = InitOpt(DictUpdate(restored, data), 2)
    /\ pc' = "restored"
    /\ UNCHANGED <<hyper, numerics, tf_trainer, buffer, self_dict, data, audit, result, runner,
                   n_transitions_stored, params, last_returns, stats, train_i,
                   locals, raised, counters, history>>

\* The restored object is handed to a trainer and train is entered (line 269).
pickle_resume ==
    /\ pc = "restored"
    /\ pc' = "resumed"
    /\ UNCHANGED <<hyper, numerics, tf_trainer, buffer, snapshot, audit, result, runner,
                   n_transitions_stored, params, last_returns, stats, train_i,
                   locals, raised, counters, history>>

NextPickle ==
    \/ pickle_getstate
    \/ pickle_setstate
    \/ pickle_resume

SpecPickle == InitPickle /\ [][NextPickle]_vars

\* ----------------------------------- the training loop over a shared buffer
\* Reward scales of the runs over a buffer that may hand out references.
BufferRewardScales == {DefaultRewardScale, 2 * DefaultRewardScale}

\* As Init, for one epoch, with the replay buffer either copying what it
\* samples or handing out views of its storage, and reward_scale 1.0 or 2.0.
InitBuffer ==
    /\ pc = "new"
    /\ start_steps \in {0, MaxStartSteps}
    /\ min_buffer_size \in {1, MaxMinBuffer}
    /\ n_train_steps \in TrainStepsChoices
    /\ steps_per_epoch \in StepsPerEpochChoices
    /\ n_epochs = 1
    /\ tau = TauDen
    /\ reward_scale \in BufferRewardScales
    /\ discount = DefaultDiscount
    /\ exploration_policy_clip = DefaultNoiseClip
    /\ num_evaluation_episodes = DefaultNumEvaluationEpisodes
    /\ buffer_batch_size = 1
    /\ step_itr = 0 /\ total_env_steps = 0 /\ step_path = 0
    /\ epoch = 0 /\ cycle = 0 /\ agent_update = "none"
    /\ enable_logging = TRUE
    /\ n_transitions_stored = 0
    /\ buffer_rewards = <<>> /\ by_reference \in BOOLEAN
    /\ NoSnapshot /\ NoAudit /\ NoDivergence /\ NoSession /\ result = None
    /\ policy \in {p * ParamUnit : p \in InitPolicyParams}
    /\ qf \in {q * ParamUnit : q \in InitQfParams}
    /\ target_policy = 0 /\ target_qf = 0
    /\ last_returns = None
    /\ epoch_stats = <<>> /\ tabular = <<>>
    /\ train_i = 0
    /\ NoLocals
    /\ raised = "none"
    /\ NoHistory

SpecBuffer == InitBuffer /\ [][Next]_vars

\* ------------------------------ the training loop over any hyperparameters
\* Batch sizes of the runs over unchecked hyperparameters.
BatchSizeChoices == {1, 2}

\* As Init, for one epoch, with the arguments of DDPG.__init__ as a caller
\* may pass them: target_update_tau from 0 to above 1 (TauDen + 1 stands for
\* a tau above 1), buffer_batch_size below or above min_buffer_size.
InitConfig ==
    /\ pc = "new"
    /\ start_steps \in {0, MaxStartSteps}
    /\ min_buffer_size \in {1, MaxMinBuffer}
    /\ n_train_steps \in TrainStepsChoices
    /\ steps_per_epoch \in StepsPerEpochChoices
    /\ n_epochs = 1
    /\ tau \in 0..(TauDen + 1)
    /\ reward_scale = DefaultRewardScale
    /\ discount = DefaultDiscount
    /\ exploration_policy_clip = DefaultNoiseClip
    /\ num_evaluation_episodes = DefaultNumEvaluationEpisodes
    /\ buffer_batch_size \in BatchSizeChoices
    /\ step_itr = 0 /\ total_env_steps = 0 /\ step_path = 0
    /\ epoch = 0 /\ cycle = 0 /\ agent_update = "none"
    /\ enable_logging = TRUE
    /\ n_transitions_stored = 0
    /\ buffer_rewards = <<>> /\ by_reference = FALSE
    /\ NoSnapshot /\ NoAudit /\ NoDivergence /\ NoSession /\ result = None
    /\ policy \in {p * ParamUnit : p \in InitPolicyParams}
    /\ qf \in {q * ParamUnit : q \in InitQfParams}
    /\ target_policy = 0 /\ target_qf = 0
    /\ last_returns = None
    /\ epoch_stats = <<>> /\ tabular = <<>>
    /\ train_i = 0
    /\ NoLocals
    /\ raised = "none"
    /\ NoHistory

SpecConfig == InitConfig /\ [][Next]_vars

\* ------------------------------- the training loop over a diverging critic
\* Outputs of a target critic whose parameters may have overflowed.
DivergingTargetQvals == {Fin(500), Inf, NaN}

\* As Init, for one epoch, with a target critic that may return inf or nan.
InitDiverge ==
    /\ pc = "new"
    /\ start_steps \in {0, MaxStartSteps}
    /\ min_buffer_size \in {1, MaxMinBuffer}
    /\ n_train_steps \in TrainStepsChoices
    /\ steps_per_epoch \in StepsPerEpochChoices
    /\ n_epochs = 1
    /\ tau = TauDen
    /\ reward_scale = DefaultRewardScale
    /\ discount = DefaultDiscount
    /\ exploration_policy_clip = DefaultNoiseClip
    /\ num_evaluation_episodes = DefaultNumEvaluationEpisodes
    /\ buffer_batch_size = 1
    /\ step_itr = 0 /\ total_env_steps = 0 /\ step_path = 0
    /\ epoch = 0 /\ cycle = 0 /\ agent_update = "none"
    /\ enable_logging = TRUE
    /\ n_transitions_stored = 0
    /\ buffer_rewards = <<>> /\ by_reference = FALSE
    /\ NoSnapshot /\ NoAudit /\ result = None
    /\ target_q_outputs = DivergingTargetQvals /\ nonfinite_steps = {}
    /\ NoSession
    /\ policy \in {p * ParamUnit : p \in InitPolicyParams}
    /\ qf \in {q * ParamUnit : q \in InitQfParams}
    /\ target_policy = 0 /\ target_qf = 0
    /\ last_returns = None
    /\ epoch_stats = <<>> /\ tabular = <<>>
    /\ train_i = 0
    /\ NoLocals
    /\ raised = "none"
    /\ NoHistory

SpecDiverge == InitDiverge /\ [][Next]_vars

\* ---------------------------------- TFTrainer.__enter__ / TFTrainer.__exit__
\* (src/src/garage/trainer/tf_trainer.py lines 76-105)
MaxSessionDepth == 3
MaxTrainerCalls == 4

\* self.sess and any other session of the process.
Sessions == {"self", "other"}

\* tf.compat.v1.get_default_session(): the top of the stack, or None.
DefaultSession(stack) ==
    IF stack = <<>> THEN "None" ELSE stack[Len(stack)].sess

\* self.sess is inside a 'with' context (Session.__enter__ has been called
\* on it and not yet Session.__exit__).
InContext(stack) == \E i \in 1..Len(stack) : stack[i].sess = "self"

\* The stack without its top.
Pop(stack) == SubSeq(stack, 1, Len(stack) - 1)

\* Variant: __enter__ enters self.sess whatever the default session is.
ShouldEnter_always(default) == TRUE

\* The condition of line 88.
ShouldEnter(default) == default # "self"

\* Variant: __exit__ does not ask whether the trainer entered the session.
ShouldExit_ignores_entered(default, entered) == default = "self"

\* The condition of lines 101-102.
ShouldExit(default, entered) == default = "self" /\ entered

\* A trainer as constructed (line 79: sess_entered = False), with no default
\* session, with self.sess already the default one (the caller passed the
\* session of its own 'with' block as sess), or with another default session.
InitSession ==
    /\ pc = "session"
    /\ start_steps = 0 /\ min_buffer_size = 1 /\ n_train_steps = 1
    /\ steps_per_epoch = 1 /\ n_epochs = 1 /\ tau = TauDen
    /\ reward_scale = DefaultRewardScale
    /\ discount = DefaultDiscount
    /\ exploration_policy_clip = DefaultNoiseClip
    /\ num_evaluation_episodes = DefaultNumEvaluationEpisodes
    /\ buffer_batch_size = 1
    /\ step_itr = 0 /\ total_env_steps = 0 /\ step_path = 0
    /\ epoch = 0 /\ cycle = 0 /\ agent_update = "none"
    /\ enable_logging = TRUE
    /\ n_transitions_stored = 0
    /\ buffer_rewards = <<>> /\ by_reference = FALSE
    /\ NoSnapshot /\ NoAudit /\ NoDivergence /\ result = None
    /\ policy = 0 /\ qf = 0 /\ target_policy = 0 /\ target_qf = 0
    /\ last_returns = None
    /\ epoch_stats = <<>> /\ tabular = <<>>
    /\ train_i = 0
    /\ NoLocals
    /\ raised = "none"
    /\ NoHistory
    /\ sess_entered = FALSE
    /\ session_stack \in {<<>>} \cup {<<[sess |-> s, by |-> "caller"]>> : s \in Sessions}
    /\ n_enter_calls = 0 /\ n_exit_calls = 0
    /\ n_sess_enter = 0 /\ n_sess_exit = 0
    /\ last_exit = NoExit

\* Lines 81-91. Session.__enter__ makes the session the default one; on a
\* session that is inside a 'with' context it raises RuntimeError (session
\* context managers are not re-entrant), before line 90 is reached.
TFTrainer_enter ==
    /\ pc = "session"
    /\ n_enter_calls + n_exit_calls < MaxTrainerCalls
    /\ n_enter_calls' = n_enter_calls + 1
    /\ IF ShouldEnter(DefaultSession(session_stack))
       THEN IF InContext(session_stack)
            THEN /\ raised' = "RuntimeError"
                 /\ UNCHANGED <<sess_entered, session_stack, n_sess_enter>>
            ELSE /\ session_stack' =
                       Append(session_stack, [sess |-> "self", by |-> "trainer"])
                 /\ n_sess_enter' = n_sess_enter + 1
                 /\ sess_entered' = TRUE
                 /\ raised' = "none"
       ELSE /\ raised' = "none"
            /\ UNCHANGED <<sess_entered, session_stack, n_sess_enter>>
    /\ UNCHANGED <<pc, hyper, numerics, buffer, snapshot, audit, result,
                   runner, n_transitions_stored, params, last_returns, stats,
                   train_i, locals, counters, history, n_exit_calls,
                   n_sess_exit, last_exit>>

\* Lines 93-105, called on a normal exit (exc_type None) or with an exception.
\* Session.__exit__ removes the default session, the top of the stack.
TFTrainer_exit ==
    /\ pc = "session"
    /\ n_enter_calls + n_exit_calls < MaxTrainerCalls
    /\ n_exit_calls' = n_exit_calls + 1
    /\ \E exc_type \in {"None", "Exception"} :
          IF ShouldExit(DefaultSession(session_stack), sess_entered)
          THEN /\ session_stack' = Pop(session_stack)
               /\ n_sess_exit' = n_sess_exit + 1
               /\ sess_entered' = FALSE
               /\ last_exit' =
                     [exc |-> exc_type,
                      was_default |-> DefaultSession(session_stack) = "self",
                      was_entered |-> sess_entered,
                      released |-> TRUE,
                      popped |-> session_stack[Len(session_stack)].by]
          ELSE /\ last_exit' =
                     [exc |-> exc_type,
                      was_default |-> DefaultSession(session_stack) = "self",
                      was_entered |-> sess_entered,
                      released |-> FALSE,
                      popped |-> "none"]
               /\ UNCHANGED <<sess_entered, session_stack, n_sess_exit>>
    /\ raised' = "none"
    /\ UNCHANGED <<pc, hyper, numerics, buffer, snapshot, audit, result,
                   runner, n_transitions_stored, params, last_returns, stats,
                   train_i, locals, counters, history, n_enter_calls,
                   n_sess_enter>>

\* Code around the trainer opens a 'with' block on a session (raised holds
\* the exception of the latest call only).
caller_with_enter ==
    /\ pc = "session"
    /\ Len(session_stack) < MaxSessionDepth
    /\ \E s \in Sessions :
          /\ s = "self" => ~InContext(session_stack)
          /\ session_stack' = Append(session_stack, [sess |-> s, by |-> "caller"])
    /\ raised' = "none"
    /\ UNCHANGED <<pc, hyper, numerics, buffer, snapshot, audit, result,
                   runner, n_transitions_stored, params, last_returns, stats,
                   train_i, locals, counters, history, sess_entered,
                   n_enter_calls, n_exit_calls, n_sess_enter, n_sess_exit,
                   last_exit>>

\* Code around the trainer leaves its innermost 'with' block.
caller_with_exit ==
    /\ pc = "session"
    /\ session_stack # <<>>
    /\ session_stack[Len(session_stack)].by = "caller"
    /\ session_stack' = Pop(session_stack)
    /\ raised' = "none"
    /\ UNCHANGED <<pc, hyper, numerics, buffer, snapshot, audit, result,
                   runner, n_transitions_stored, params, last_returns, stats,
                   train_i, locals, counters, history, sess_entered,
                   n_enter_calls, n_exit_calls, n_sess_enter, n_sess_exit,
                   last_exit>>

NextSession ==
    \/ TFTrainer_enter
    \/ TFTrainer_exit
    \/ caller_with_enter
    \/ caller_with_exit

SpecSession == InitSession /\ [][NextSession]_vars

\* =============================================================== properties
\* Positions inside the cycles of train (lines 285-314).
CyclePositions ==
    {"obtain", "add", "gate", "train_once", "opt_targets", "opt_train_qf",
     "opt_train_policy", "opt_update_target", "opt_return", "log", "evaluate",
     "next"}

\* C1: while the replay buffer holds fewer than min_buffer_size transitions,
\* no optimization step has run (no optimize_policy call, no critic or policy
\* gradient update, no soft update), and no cycle has raised an exception.
C1_NoOptimizeBelowMinBuffer ==
    n_transitions_stored < min_buffer_size =>
        /\ pc # "opt_targets" /\ pc # "opt_train_qf" /\ pc # "opt_train_policy"
        /\ pc # "opt_update_target" /\ pc # "opt_return"
        /\ n_optimize = 0
        /\ n_qf_updates = 0
        /\ n_policy_updates = 0
        /\ n_soft_updates = 0
        /\ (pc \in CyclePositions => raised = "none")

\* C1 witness: train_once ran its whole loop on a cold buffer, skipping every
\* optimization.
C1_Witness ==
    /\ pc = "log"
    /\ n_transitions_stored < min_buffer_size
    /\ train_i = n_train_steps
    /\ step_itr >= 1
    /\ n_optimize = 0

\* C2 as stated: at the end of every cycle whose buffer holds at least
\* min_buffer_size transitions, exactly n_train_steps optimization steps have
\* run in the cycle.
C2_OptimizeWheneverWarm ==
    (pc = "next" /\ n_transitions_stored >= min_buffer_size) =>
        cycle_opt = n_train_steps

\* C2 amended: at the end of every cycle, exactly n_train_steps optimization
\* steps have run in the cycle if the buffer holds at least min_buffer_size
\* transitions and the runner's total_env_steps is at least start_steps, and
\* none otherwise.
C2_OptimizeWhenWarmAndStarted ==
    pc = "next" =>
        cycle_opt =
            IF n_transitions_stored >= min_buffer_size
               /\ total_env_steps >= start_steps
            THEN n_train_steps
            ELSE 0

\* C2 witness: a cycle that ran two optimization steps, and was warm.
C2_Witness ==
    /\ pc = "next"
    /\ n_transitions_stored >= min_buffer_size
    /\ total_env_steps >= start_steps
    /\ start_steps > 0
    /\ n_train_steps = 2
    /\ cycle_opt = 2

\* C3: the acting policy handed to the sampler is the uniform-random policy
\* if and only if the environment steps taken so far are below start_steps,
\* and the exploration policy otherwise.
C3_ActingPolicyByEnvSteps ==
    pc = "add" =>
        /\ (agent_update = "uniform_random_policy")
              <=> (env_steps_at_choice < start_steps)
        /\ (agent_update = "exploration_policy")
              <=> (env_steps_at_choice >= start_steps)

\* C4: an optimization step computes ys from the target networks as they are
\* before the step's updates, then updates the critic once, then the policy
\* once against the critic parameters the critic update produced, then the
\* targets once; outside a step the three update counts equal the step count.
C4_StepOrder ==
    /\ pc = "opt_return" =>
          /\ opt_trace = <<"ys", "train_qf", "train_policy", "update_target">>
          /\ qf_in_action_loss = qf_trained
          /\ ys_targets = prev_targets
          /\ n_qf_updates = n_optimize + 1
          /\ n_policy_updates = n_optimize + 1
          /\ n_soft_updates = n_optimize + 1
    /\ pc \in {"train_once", "log", "evaluate", "next", "obtain", "add", "gate",
               "return", "done", "raised"} =>
          /\ n_qf_updates = n_optimize
          /\ n_policy_updates = n_optimize
          /\ n_soft_updates = n_optimize

\* C4 witness: the second optimization step of a run has done its updates.
C4_Witness ==
    /\ pc = "opt_return"
    /\ n_optimize = 1
    /\ qf_in_action_loss = qf
    /\ qf_trained # prev_targets[2]

\* C5: once DDPG is constructed and until the first gradient update, every
\* target parameter equals its online parameter, for every tau.
C5_HardInit ==
    (pc # "new" /\ n_qf_updates = 0 /\ n_policy_updates = 0
        /\ n_soft_updates = 0) =>
        /\ target_policy = policy
        /\ target_qf = qf

\* C5 witness: the first optimization step is about to run with a slow tau.
C5_Witness ==
    /\ pc = "opt_targets"
    /\ n_optimize = 0
    /\ tau < TauDen
    /\ target_policy = policy
    /\ target_qf = qf
    /\ qf # 0
    /\ policy # 0

\* C6: after the soft update of an optimization step, each target parameter
\* is tau * online + (1 - tau) * old target with online as updated by the
\* step's gradient updates; so with tau = 1 the targets equal the online
\* parameters, and the distance target - online has shrunk by (1 - tau).
C6_SoftUpdate ==
    pc = "opt_return" =>
        /\ TauDen * target_policy
              = tau * policy + (TauDen - tau) * prev_targets[1]
        /\ TauDen * target_qf = tau * qf + (TauDen - tau) * prev_targets[2]
        /\ qf = qf_trained
        /\ (tau = TauDen => target_policy = policy /\ target_qf = qf)
        /\ TauDen * (target_policy - policy)
              = (TauDen - tau) * (prev_targets[1] - policy)
        /\ TauDen * (target_qf - qf) = (TauDen - tau) * (prev_targets[2] - qf)

\* C6 witness: a second soft update with a slow tau, the targets lagging.
C6_Witness ==
    /\ pc = "opt_return"
    /\ tau < TauDen
    /\ n_soft_updates = 2
    /\ target_qf # qf
    /\ target_qf # prev_targets[2]
    /\ target_policy # policy

\* C7 as stated: for a terminal transition ys is the scaled reward whatever
\* the target critic returns; for a non-terminal one it is
\* reward + discount * target_q.
C7_TerminalTargetAnyQ ==
    pc = "computed" =>
        /\ terminals = 1 => ys = Fin(rewards)
        /\ terminals = 0 => ys = FAdd(Fin(rewards), FScale(discount, target_qvals))

\* C7 amended: for a terminal transition ys is the scaled reward whenever the
\* target critic returns a finite value, and NaN when it returns inf or NaN;
\* for a non-terminal one it is reward + discount * target_q.
C7_TerminalTargetFiniteQ ==
    pc = "computed" =>
        /\ (terminals = 1 /\ IsFinite(target_qvals)) => ys = Fin(rewards)
        /\ (terminals = 1 /\ ~IsFinite(target_qvals)) => ys = NaN
        /\ terminals = 0 => ys = FAdd(Fin(rewards), FScale(discount, target_qvals))

\* C7 witness: a terminal transition with a non-zero finite target value and
\* a non-zero discount.
C7_Witness ==
    /\ pc = "computed"
    /\ terminals = 1
    /\ target_qvals = Fin(500)
    /\ discount = 99
    /\ reward_scale = 200
    /\ raw_rewards = 250
    /\ ys = Fin(500)

\* The inputs of the scenario of C8: discount 0.99, reward_scale 2.0,
\* r = 1.0, terminal = 0, target_q = 5.0.
C8_Scenario ==
    /\ pc = "computed"
    /\ discount = 99
    /\ reward_scale = 200
    /\ raw_rewards = 100
    /\ terminals = 0
    /\ target_qvals = Fin(500)

\* C8 as stated: the scenario yields y = 11.9.
C8_ScenarioYields1190 == C8_Scenario => ys = Fin(1190)

\* C8 amended: the scenario yields y = 2.0 + 0.99 * 5.0 = 6.95, the reward
\* scale multiplying the reward only.
C8_ScenarioYields695 == C8_Scenario => ys = Fin(695)

\* C8 witness: the scenario has been computed.
C8_Witness == C8_Scenario /\ rewards = 200 /\ ys = Fin(695)

\* The raw reward scaled beforehand, R * r.
PreScaledReward == (reward_scale * raw_rewards) \div FP

\* C9: ys computed with reward_scale R on reward r equals the regression
\* target computed with reward_scale 1 on the reward R * r.
C9_ScalingCommutes ==
    pc = "computed" =>
        ys = RegressionTarget(PreScaledReward, terminals, FP, discount,
                              target_qvals)

\* C9 witness: a scale other than 1 on a non-zero reward with a bootstrap term.
C9_Witness ==
    /\ pc = "computed"
    /\ reward_scale = 50
    /\ raw_rewards = 250
    /\ terminals = 0
    /\ discount = 99
    /\ target_qvals = Fin(0 - 300)
    /\ ys = Fin(125 - 297)

\* C10: the clipped noise lies in [-exploration_policy_clip,
\* exploration_policy_clip], so the target action differs from the target
\* policy's action by at most the clip (for a clip >= 0).
C10_NoiseClipped ==
    pc = "computed" =>
        /\ 0 - exploration_policy_clip <= noise
        /\ noise <= exploration_policy_clip
        /\ target_actions - policy_actions <= exploration_policy_clip
        /\ policy_actions - target_actions <= exploration_policy_clip

\* C10 witness: a draw below -clip was clipped to -clip.
C10_Witness ==
    /\ pc = "computed"
    /\ exploration_policy_clip = 50
    /\ noise_draw = 0 - 70
    /\ noise = 0 - 50
    /\ policy_actions = 40
    /\ target_actions = 0 - 10

\* The evaluations run in the cycle of iteration itr.
EvaluationsOf(itr) ==
    {i \in 1..Len(evaluations) : evaluations[i].itr = itr}

\* C11: in a cycle an evaluation runs if and only if the cycle is the first
\* of its epoch and the buffer holds at least min_buffer_size transitions;
\* it runs once, with the online policy, for num_evaluation_episodes
\* episodes; no evaluation has run while the buffer is below min_buffer_size.
C11_EvaluationCadence ==
    /\ pc = "next" =>
          Cardinality(EvaluationsOf(step_itr)) =
              IF cycle = 0 /\ n_transitions_stored >= min_buffer_size
              THEN 1 ELSE 0
    /\ \A i \in 1..Len(evaluations) :
          /\ evaluations[i].agent = "policy"
          /\ evaluations[i].num_eps = num_evaluation_episodes
          /\ evaluations[i].itr % steps_per_epoch = 0
    /\ n_transitions_stored < min_buffer_size => evaluations = <<>>

\* C11 witness: the second epoch evaluated in its first cycle after the first
\* epoch, of two cycles, did too.
C11_Witness ==
    /\ pc = "next"
    /\ steps_per_epoch = 2
    /\ epoch = 1 /\ cycle = 0
    /\ Len(evaluations) = 2
    /\ evaluations[2].itr = 2

\* C12: when train returns, the value returned is the returns of the
\* evaluation of the final epoch (epoch n_epochs - 1), which did run.
C12_ReturnsFinalEpoch ==
    pc = "done" =>
        /\ result = n_epochs - 1
        /\ EvaluationsOf((n_epochs - 1) * steps_per_epoch) # {}

\* C12 witness: a run of two epochs, both evaluated, has returned.
C12_Witness ==
    /\ pc = "done"
    /\ n_epochs = 2
    /\ Len(evaluations) = 2
    /\ result = 1

\* C13 (as stated): a run in which no evaluation ran ends by returning a
\* value, with nothing raised to the caller.
C13_NoEvaluationStillReturns ==
    (pc \in {"done", "raised"} /\ evaluations = <<>>) =>
        (pc = "done" /\ raised = "none")

\* The cycles of the run are over.
Terminated == pc \in {"done", "raised"}

\* The counts of a run: every cycle obtains one batch, appends it once and
\* advances step_itr by one, and the loops end after n_epochs *
\* steps_per_epoch cycles.
CycleCounts ==
    /\ n_add <= n_obtain /\ n_obtain <= n_add + 1
    /\ n_add \in {step_itr, step_itr + 1}
    /\ pc = "obtain" => n_obtain = step_itr /\ n_add = step_itr
    /\ pc = "add" => n_obtain = step_itr + 1 /\ n_add = step_itr
    /\ pc \in {"gate", "evaluate", "next"} =>
          n_obtain = step_itr + 1 /\ n_add = step_itr + 1
    /\ pc \in {"obtain", "add", "gate", "evaluate", "next"} =>
          step_itr = epoch * steps_per_epoch + cycle
    /\ pc \in {"return", "done", "raised"} =>
          /\ step_itr = n_epochs * steps_per_epoch
          /\ n_obtain = step_itr
          /\ n_add = step_itr
    /\ Len(buffer_rewards) = n_transitions_stored

\* C14: a run drives exactly n_epochs * steps_per_epoch cycles, each with one
\* batch obtained, one append and step_itr advanced by one, and then ends.
C14_CyclesThenTerminates == []CycleCounts /\ <>Terminated

\* C14 witness: a run of two epochs of two cycles has ended after 4 cycles.
C14_Witness ==
    /\ Terminated
    /\ n_epochs = 2 /\ steps_per_epoch = 2
    /\ step_itr = 4 /\ n_obtain = 4 /\ n_add = 4

\* The optimization steps a sequence of the statistics lists holds.
StepsIn(over) == {over[k] : k \in 1..Len(over)}

\* C15 (as stated): the statistics lists are reset at each recording: right
\* after a recording they are empty, and no optimization step contributes to
\* two recordings.
C15_StatsResetAtRecording ==
    /\ (pc = "evaluate" /\ tabular # <<>>
        /\ tabular[Len(tabular)].itr = step_itr) => epoch_stats = <<>>
    /\ \A i, j \in 1..Len(tabular) :
          i < j => StepsIn(tabular[i].over) \cap StepsIn(tabular[j].over) = {}

\* The epochs whose statistics have been recorded.
RecordedEpochs ==
    {tabular[i].itr \div steps_per_epoch : i \in 1..Len(tabular)}

\* C20: the statistics are recorded only in the first cycle of an epoch, at
\* most once per epoch, never with fewer than min_buffer_size transitions
\* stored, and, between the calls of train_once, exactly for the epochs
\* whose first cycle executed optimization steps.
C20_StatsOncePerEpoch ==
    /\ \A i \in 1..Len(tabular) :
          /\ tabular[i].itr % steps_per_epoch = 0
          /\ tabular[i].stored >= min_buffer_size
          /\ tabular[i].over # <<>>
    /\ \A i, j \in 1..Len(tabular) :
          i # j => tabular[i].itr # tabular[j].itr
    /\ pc \in {"obtain", "add", "gate", "evaluate", "next", "return",
               "done", "raised"} => RecordedEpochs = opt_epochs

\* C20 witness: of two epochs of two cycles, the first optimized only in its
\* second cycle and was not recorded, the second was recorded once.
C20_Witness ==
    /\ pc = "next"
    /\ steps_per_epoch = 2 /\ n_train_steps = 1
    /\ epoch = 1 /\ cycle = 1
    /\ n_optimize = 3
    /\ opt_epochs = {1}
    /\ Len(tabular) = 1

\* What a step may write of the network parameters, by the statement it runs.
ParamsFrame ==
    /\ pc = "opt_train_qf" => UNCHANGED <<policy, target_policy, target_qf>>
    /\ pc = "opt_train_policy" => UNCHANGED <<qf, target_policy, target_qf>>
    /\ pc = "opt_update_target" => UNCHANGED <<policy, qf>>
    /\ pc \notin {"new", "opt_train_qf", "opt_train_policy",
                  "opt_update_target"} => UNCHANGED params

\* C17: the critic's gradient step writes the online critic only, the
\* actor's the online policy only, the targets change only in the soft
\* update of an optimization step, and every step outside an optimization
\* step (sampling, buffer append, evaluation, ...) leaves all four parameter
\* sets unchanged; the construction of the networks is not a training step.
C17_TargetsNeverTrained == [][ParamsFrame]_vars

\* C17 witness: an optimization step has trained both online networks, the
\* targets still have their values of before the step, and the soft
\* update is about to change them.
C17_Witness ==
    /\ pc = "opt_update_target"
    /\ n_qf_updates = n_soft_updates + 1
    /\ n_policy_updates = n_soft_updates + 1
    /\ n_soft_updates >= 1
    /\ <<target_policy, target_qf>> # <<policy, qf>>
    /\ SoftUpdate(qf, target_qf, tau) # target_qf

\* C16: the pickled state holds none of the six derived functions and every
\* other attribute with its value; producing it leaves the live object's
\* __dict__ as it was, six functions included; the restored object holds
\* every persisted attribute with the saved value and all six functions,
\* newly built, before its training is resumed.
C16_SnapshotRoundTrip ==
    /\ self_dict = LiveDict(1)
    /\ pc \in {"pickled", "restored", "resumed"} =>
          /\ DOMAIN data = PersistedFields
          /\ DOMAIN data \cap DerivedFunctions = {}
          /\ \A k \in PersistedFields : data[k] = self_dict[k]
    /\ pc \in {"restored", "resumed"} =>
          /\ DOMAIN restored = PersistedFields \cup DerivedFunctions
          /\ \A k \in PersistedFields : restored[k] = data[k]
          /\ \A k \in DerivedFunctions :
                restored[k] = [fn |-> k, build |-> 2]

\* C16 witness: an object with recorded statistics was pickled and restored,
\* and training of the restored object has been resumed.
C16_Witness ==
    /\ pc = "resumed"
    /\ epoch_stats = <<1, 2>>
    /\ restored["_episode_qf_losses"] = [v |-> <<1, 2>>]
    /\ "f_update_target" \in DOMAIN restored

\* C18 (as stated): with a buffer that hands out what it stores by
\* reference, every stored transition keeps the reward it was stored with,
\* whatever optimization steps have run.
C18_StoredRewardsImmutable ==
    by_reference =>
        \A i \in 1..Len(buffer_rewards) : buffer_rewards[i] \in LoopRewards

\* The hyperparameters the specification calls invalid.
InvalidHyperparameters ==
    \/ min_buffer_size < buffer_batch_size
    \/ tau \notin 1..TauDen

\* C19 (as stated): with invalid hyperparameters construction fails: the
\* object is never constructed, and no sampling cycle and no optimization
\* step runs.
C19_InvalidConfigRejected ==
    InvalidHyperparameters =>
        /\ pc \in {"new", "raised"}
        /\ n_obtain = 0
        /\ n_optimize = 0

\* Positions inside train_once and optimize_policy.
TrainOncePositions ==
    {"train_once", "opt_targets", "opt_train_qf", "opt_train_policy",
     "opt_update_target", "opt_return", "log"}

\* C23: train_once runs only in cycles whose total_env_steps is at least
\* start_steps, an optimization step runs only with total_env_steps >=
\* start_steps and n_transitions_stored >= min_buffer_size, a cycle below
\* start_steps ends with no optimization step, and all the while the cycle's
\* acting policy is the one chosen from step_itr.
C23_NoOptimizeBeforeStartSteps ==
    /\ pc \in TrainOncePositions => total_env_steps >= start_steps
    /\ pc \in TrainOncePositions \ {"train_once", "log"} =>
          /\ total_env_steps >= start_steps
          /\ n_transitions_stored >= min_buffer_size
    /\ (pc \in {"evaluate", "next"} /\ total_env_steps < start_steps) =>
          cycle_opt = 0
    /\ pc \in TrainOncePositions \cup {"add", "gate", "evaluate", "next"} =>
          agent_update = ActingPolicy(step_itr, start_steps)

\* C23 witness: an optimization step runs in a cycle whose batch was
\* collected by the uniform-random policy (step_itr below start_steps) after
\* total_env_steps has reached start_steps.
C23_Witness ==
    /\ pc = "opt_train_qf"
    /\ step_itr < start_steps
    /\ total_env_steps >= start_steps
    /\ agent_update = "uniform_random_policy"

\* C22: the phases of a cycle follow one another: while the batch is being
\* appended it is fully collected and no optimization step of the cycle has
\* run; every optimization step runs with the cycle's batch appended; the
\* evaluation starts with every optimization step of the cycle complete
\* (critic update, actor update and soft update done as often as
\* optimize_policy has returned), and no evaluation of a cycle exists before
\* its optimization phase is over.
C22_PhasesSequential ==
    /\ pc = "add" =>
          /\ n_obtain = step_itr + 1 /\ n_add = step_itr
          /\ n_transitions_stored + step_path = total_env_steps
          /\ cycle_opt = 0
    /\ pc = "gate" => cycle_opt = 0
    /\ pc \in TrainOncePositions =>
          /\ n_obtain = step_itr + 1 /\ n_add = step_itr + 1
          /\ n_transitions_stored = total_env_steps
          /\ Len(buffer_rewards) = total_env_steps
          /\ EvaluationsOf(step_itr) = {}
    /\ pc \in {"evaluate", "next"} =>
          /\ n_add = step_itr + 1
          /\ cycle_opt \in {0, n_train_steps}
          /\ n_qf_updates = n_optimize
          /\ n_policy_updates = n_optimize
          /\ n_soft_updates = n_optimize
    /\ \A i \in 1..Len(evaluations) :
          \E k \in 0..n_optimize :
             /\ evaluations[i].after = <<k, k, k>>
             /\ (i = Len(evaluations) /\ pc = "next"
                 /\ evaluations[i].itr = step_itr) => k = n_optimize

\* C22 witness: a cycle collected and appended its batch, ran two
\* optimization steps and then evaluated.
C22_Witness ==
    /\ pc = "next"
    /\ n_train_steps = 2 /\ cycle_opt = 2
    /\ EvaluationsOf(step_itr) # {}
    /\ evaluations[Len(evaluations)].after =
          <<n_optimize, n_optimize, n_optimize>>
    /\ n_transitions_stored = total_env_steps

\* C21 (as stated): an optimization step that returns a non-finite value
\* ends the run with an error raised to the caller: no position of train is
\* reached after it, and the step is not among those the statistics lists or
\* a recording hold.
C21_DivergenceFatal ==
    /\ nonfinite_steps # {} => pc = "raised"
    /\ StepsIn(epoch_stats) \cap nonfinite_steps = {}
    /\ \A i \in 1..Len(tabular) :
          StepsIn(tabular[i].over) \cap nonfinite_steps = {}

\* The entries of the default-session stack the trainer made.
TrainerEntries ==
    {i \in 1..Len(session_stack) : session_stack[i].by = "trainer"}

\* C24: over any sequence of __enter__ and __exit__ calls, sess_entered is
\* true exactly while an entry the trainer made is on the stack of default
\* sessions (between the __enter__ that made self.sess default and the
\* __exit__ that released it); the session exits never exceed the session
\* entries; self.sess is entered by the trainer at most once at a time and
\* never while it is inside a context already; an __exit__ releases the
\* session exactly if self.sess is the default session and the trainer
\* entered it, whether it is called with an exception or not, and what it
\* releases is the trainer's own entry; an __enter__ that finds self.sess
\* the default session does not call its __enter__ (which would raise).
C24_SessionScoping ==
    /\ sess_entered <=> TrainerEntries # {}
    /\ Cardinality(TrainerEntries) <= 1
    /\ Cardinality({i \in 1..Len(session_stack) :
                       session_stack[i].sess = "self"}) <= 1
    /\ n_sess_exit <= n_sess_enter
    /\ n_sess_enter - n_sess_exit = IF sess_entered THEN 1 ELSE 0
    /\ n_sess_enter <= n_enter_calls /\ n_sess_exit <= n_exit_calls
    /\ last_exit.released <=> (last_exit.was_default /\ last_exit.was_entered)
    /\ last_exit.released => last_exit.popped = "trainer"
    /\ raised = "RuntimeError" => DefaultSession(session_stack) # "self"

\* C24 witness: the trainer entered its session for the second time, after
\* an __exit__ called with an exception released the first entry.
C24_Witness ==
    /\ sess_entered
    /\ n_sess_enter = 2 /\ n_sess_exit = 1
    /\ last_exit.exc = "Exception" /\ last_exit.released
    /\ DefaultSession(session_stack) = "self"

====
